---------------------------- MODULE Spec2Model ----------------------------
(***************************************************************************)
(* The resilient structured-response pipeline of the healthcare simulation *)
(* API: HealthcareOperations._query_llm_with_retry                         *)
(* (src/src/api/healthcare/operations.py, lines 399-552).                  *)
(*                                                                         *)
(* A reply text is a sequence of atoms.  Concatenating the atoms gives the *)
(* Python string.  The structural characters { } [ ] : , " are one atom    *)
(* each, so are a space, a line break and a run of three backticks; every  *)
(* other atom is a word: a maximal run of characters that holds none of    *)
(* the structural ones (a word with a space inside occurs only within a    *)
(* string literal).  No two words are adjacent, and no word other than     *)
(* "json" starts with "json".  Under these conventions every string        *)
(* operation of the source (strip, startswith, endswith, rfind, count,     *)
(* slicing, +=) cuts at atom boundaries.                                   *)
(***************************************************************************)
EXTENDS Integers, Sequences, FiniteSets, TLC

LB    == "{"
RB    == "}"
LK    == "["
RK    == "]"
COL   == ":"
COM   == ","
QT    == "\""
SP    == " "
NL    == "\n"
\* the atom of three backticks (the lexer of TLA+ has no backtick)
FENCE == "<fence>"

NumberAtoms == {"110", "160", "95", "24", "37.2", "94",
                "88", "120", "80", "16", "36.6", "98", "1", "2",
                "72", "85.0", "130", "28", "39.1"}
LitAtoms    == {"null", "true", "false"}

(***************************************************************************)
(* JSON documents, as Python's json module holds them.  An object is the   *)
(* insertion-ordered sequence of its (key, value) pairs, keys unique.      *)
(***************************************************************************)
JStr(content) == [t |-> "str", v |-> content]
JNum(a)       == [t |-> "num", v |-> a]
JLit(a)       == [t |-> "lit", v |-> a]
JArr(items)   == [t |-> "arr", v |-> items]
JObj(pairs)   == [t |-> "obj", v |-> pairs]
JNull         == JLit("null")

S(w) == JStr(<<w>>)

ObjHas(pairs, key) == \E i \in 1..Len(pairs) : pairs[i].k = key

ObjIndex(pairs, key) == CHOOSE i \in 1..Len(pairs) : pairs[i].k = key

ObjGet(pairs, key) == pairs[ObjIndex(pairs, key)].val

\* dict.__setitem__: an existing key keeps its place, a new key goes last
ObjSet(pairs, key, val) ==
    IF ObjHas(pairs, key)
    THEN [pairs EXCEPT ![ObjIndex(pairs, key)] = [k |-> key, val |-> val]]
    ELSE Append(pairs, [k |-> key, val |-> val])

ObjKeys(pairs) == {pairs[i].k : i \in 1..Len(pairs)}

\* == on two parsed documents: objects compare as maps, lists in order
RECURSIVE DocEq(_, _)
DocEq(a, b) ==
    IF a.t # b.t THEN FALSE
    ELSE IF a.t = "obj"
         THEN /\ ObjKeys(a.v) = ObjKeys(b.v)
              /\ \A i \in 1..Len(a.v) : DocEq(a.v[i].val, ObjGet(b.v, a.v[i].k))
    ELSE IF a.t = "arr"
         THEN /\ Len(a.v) = Len(b.v)
              /\ \A i \in 1..Len(a.v) : DocEq(a.v[i], b.v[i])
    ELSE a.v = b.v

(***************************************************************************)
(* String operations of the source on atom sequences.                      *)
(***************************************************************************)
IsWs(a) == a \in {SP, NL}

RECURSIVE LStrip(_)
LStrip(s) == IF Len(s) > 0 /\ IsWs(s[1]) THEN LStrip(Tail(s)) ELSE s

RECURSIVE RStrip(_)
RStrip(s) ==
    IF Len(s) > 0 /\ IsWs(s[Len(s)]) THEN RStrip(SubSeq(s, 1, Len(s) - 1)) ELSE s

\* str.strip()
Strip(s) == RStrip(LStrip(s))

\* str.count(c)
Count(s, c) == Cardinality({i \in 1..Len(s) : s[i] = c})

\* str.rfind(c), as a 1-based index; 0 when c does not occur (Python's -1)
RFind(s, c) ==
    IF \E i \in 1..Len(s) : s[i] = c
    THEN CHOOSE i \in 1..Len(s) : s[i] = c /\ \A j \in (i + 1)..Len(s) : s[j] # c
    ELSE 0

EndsWith(s, c) == Len(s) > 0 /\ s[Len(s)] = c

\* c repeated n times
RECURSIVE Repeat(_, _)
Repeat(c, n) == IF n <= 0 THEN <<>> ELSE <<c>> \o Repeat(c, n - 1)

(***************************************************************************)
(* json.loads: a recursive-descent parser, as Python's json.decoder scans. *)
(* A parse result is [ok, val, pos]; pos is the index after the value.     *)
(***************************************************************************)
ParseFail == [ok |-> FALSE, val |-> JNull, pos |-> 0]

RECURSIVE SkipWs(_, _)
SkipWs(s, i) == IF i <= Len(s) /\ IsWs(s[i]) THEN SkipWs(s, i + 1) ELSE i

\* the body of a string literal from index i on, up to the closing quote;
\* a raw line break inside a literal is rejected (strict mode)
RECURSIVE ScanString(_, _, _)
ScanString(s, i, acc) ==
    IF i > Len(s) THEN [ok |-> FALSE, val |-> <<>>, pos |-> 0]
    ELSE IF s[i] = QT THEN [ok |-> TRUE, val |-> acc, pos |-> i + 1]
    ELSE IF s[i] = NL THEN [ok |-> FALSE, val |-> <<>>, pos |-> 0]
    ELSE ScanString(s, i + 1, Append(acc, s[i]))

RECURSIVE ParseValue(_, _)
RECURSIVE ParseMembers(_, _, _)
RECURSIVE ParseItems(_, _, _)

\* after a member's value, standing on e: } ends the object, a comma asks
\* for another member
MemberNext(s, e, acc) ==
    IF e > Len(s) THEN ParseFail
    ELSE IF s[e] = RB THEN [ok |-> TRUE, val |-> JObj(acc), pos |-> e + 1]
    ELSE IF s[e] = COM THEN ParseMembers(s, SkipWs(s, e + 1), acc)
    ELSE ParseFail

\* a member's value val has been parsed; a repeated key replaces its value
MemberValue(s, key, val, acc) ==
    IF ~val.ok THEN ParseFail
    ELSE MemberNext(s, SkipWs(s, val.pos), ObjSet(acc, key, val.val))

\* a member's key has been scanned: a colon and a value must follow
MemberColon(s, key, c, acc) ==
    IF c > Len(s) \/ s[c] # COL THEN ParseFail
    ELSE MemberValue(s, key, ParseValue(s, SkipWs(s, c + 1)), acc)

MemberKey(s, key, acc) ==
    IF ~key.ok THEN ParseFail
    ELSE MemberColon(s, key.val, SkipWs(s, key.pos), acc)

\* the members of an object, the scanner standing on the quote of a key
ParseMembers(s, j, acc) ==
    IF j > Len(s) \/ s[j] # QT THEN ParseFail
    ELSE MemberKey(s, ScanString(s, j + 1, <<>>), acc)

\* after an item, standing on e: ] ends the list, a comma asks for another
ItemNext(s, e, acc) ==
    IF e > Len(s) THEN ParseFail
    ELSE IF s[e] = RK THEN [ok |-> TRUE, val |-> JArr(acc), pos |-> e + 1]
    ELSE IF s[e] = COM THEN ParseItems(s, SkipWs(s, e + 1), acc)
    ELSE ParseFail

ItemValue(s, val, acc) ==
    IF ~val.ok THEN ParseFail
    ELSE ItemNext(s, SkipWs(s, val.pos), Append(acc, val.val))

\* the items of a list, the scanner standing on the first atom of an item
ParseItems(s, j, acc) == ItemValue(s, ParseValue(s, j), acc)

StringValue(r) ==
    IF r.ok THEN [ok |-> TRUE, val |-> JStr(r.val), pos |-> r.pos] ELSE ParseFail

\* after { standing on j: } makes the empty object
ObjectFrom(s, j) ==
    IF j <= Len(s) /\ s[j] = RB
    THEN [ok |-> TRUE, val |-> JObj(<<>>), pos |-> j + 1]
    ELSE ParseMembers(s, j, <<>>)

\* after [ standing on j: ] makes the empty list
ArrayFrom(s, j) ==
    IF j <= Len(s) /\ s[j] = RK
    THEN [ok |-> TRUE, val |-> JArr(<<>>), pos |-> j + 1]
    ELSE ParseItems(s, j, <<>>)

ParseValue(s, i) ==
    IF i > Len(s) THEN ParseFail
    ELSE IF s[i] = QT THEN StringValue(ScanString(s, i + 1, <<>>))
    ELSE IF s[i] = LB THEN ObjectFrom(s, SkipWs(s, i + 1))
    ELSE IF s[i] = LK THEN ArrayFrom(s, SkipWs(s, i + 1))
    ELSE IF s[i] \in NumberAtoms
         THEN [ok |-> TRUE, val |-> JNum(s[i]), pos |-> i + 1]
    ELSE IF s[i] \in LitAtoms
         THEN [ok |-> TRUE, val |-> JLit(s[i]), pos |-> i + 1]
    ELSE ParseFail

\* nothing but white space may follow the value
WholeText(s, r) ==
    IF r.ok /\ SkipWs(s, r.pos) = Len(s) + 1 THEN r ELSE ParseFail

\* json.loads(s): one value, white space around it, nothing after it.
\* ok = FALSE stands for json.JSONDecodeError.
Loads(s) == WholeText(s, ParseValue(s, SkipWs(s, 1)))

(***************************************************************************)
(* json.dumps with the default separators ", " and ": ".                   *)
(***************************************************************************)
RECURSIVE Dumps(_)
RECURSIVE DumpPairs(_, _)
RECURSIVE DumpItems(_, _)

DumpPairs(pairs, i) ==
    IF i > Len(pairs) THEN <<>>
    ELSE (IF i > 1 THEN <<COM, SP>> ELSE <<>>)
         \o <<QT>> \o pairs[i].k \o <<QT, COL, SP>> \o Dumps(pairs[i].val)
         \o DumpPairs(pairs, i + 1)

DumpItems(items, i) ==
    IF i > Len(items) THEN <<>>
    ELSE (IF i > 1 THEN <<COM, SP>> ELSE <<>>)
         \o Dumps(items[i]) \o DumpItems(items, i + 1)

Dumps(d) ==
    IF d.t = "obj" THEN <<LB>> \o DumpPairs(d.v, 1) \o <<RB>>
    ELSE IF d.t = "arr" THEN <<LK>> \o DumpItems(d.v, 1) \o <<RK>>
    ELSE IF d.t = "str" THEN <<QT>> \o d.v \o <<QT>>
    ELSE <<d.v>>

(***************************************************************************)
(* The field specification written into _query_llm_with_retry.             *)
(***************************************************************************)
RequiredFields ==
    <<"diagnosis", "recommended_actions", "vital_signs", "risk_assessment", "next_steps">>

VitalFields ==
    <<"heart_rate", "blood_pressure_systolic", "blood_pressure_diastolic",
      "respiratory_rate", "temperature", "oxygen_saturation">>

Range(q) == {q[i] : i \in 1..Len(q)}

\* the default of a vital sign (lines 486-491 and 509-520)
VitalDefault(field) ==
    CASE field = "heart_rate"               -> JNum("110")
      [] field = "blood_pressure_systolic"  -> JNum("160")
      [] field = "blood_pressure_diastolic" -> JNum("95")
      [] field = "respiratory_rate"         -> JNum("24")
      [] field = "temperature"              -> JNum("37.2")
      [] field = "oxygen_saturation"        -> JNum("94")

DefaultVitals ==
    JObj([i \in 1..Len(VitalFields) |->
            [k |-> <<VitalFields[i]>>, val |-> VitalDefault(VitalFields[i])]])

\* the default of a missing top-level field (lines 482-496)
DefaultValue(field) ==
    IF field = "recommended_actions"
    THEN JArr(<<S("Immediate medical evaluation required")>>)
    ELSE IF field = "vital_signs" THEN DefaultVitals
    ELSE IF field = "next_steps"
    THEN JArr(<<S("Transfer to emergency department")>>)
    ELSE S("Evaluation in progress")

(***************************************************************************)
(* Python's `field in x` and `x[field] = value` on a parsed value x.       *)
(***************************************************************************)
\* "yes", "no", or "TypeError" when x is no container
PyIn(field, x) ==
    IF x.t = "obj" THEN (IF ObjHas(x.v, <<field>>) THEN "yes" ELSE "no")
    ELSE IF x.t = "arr"
         THEN (IF \E i \in 1..Len(x.v) : x.v[i] = S(field) THEN "yes" ELSE "no")
    ELSE IF x.t = "str"
         THEN (IF \E i \in 1..Len(x.v) : x.v[i] = field THEN "yes" ELSE "no")
    ELSE "TypeError"

\* item assignment with a string key succeeds on a dict only
PySetItem(x, field, value) ==
    IF x.t = "obj"
    THEN [ok |-> TRUE, val |-> JObj(ObjSet(x.v, <<field>>, value))]
    ELSE [ok |-> FALSE, val |-> x]

(***************************************************************************)
(* The steps of one attempt on the reply text (lines 444-523).             *)
(***************************************************************************)
\* lines 445-450: strip, drop a leading fence tagged json, drop a trailing
\* fence, strip
CleanText(s) ==
    LET a == Strip(s)
        b == IF Len(a) >= 2 /\ a[1] = FENCE /\ a[2] = "json"
             THEN SubSeq(a, 3, Len(a)) ELSE a
        c == IF EndsWith(b, FENCE) THEN SubSeq(b, 1, Len(b) - 1) ELSE b
    IN  Strip(c)

\* lines 454-461: a text that does not end with } is cut after its last },
\* unless it has none or only one at index 0: then one } is appended
CompletePartial(s) ==
    IF EndsWith(s, RB) THEN s
    ELSE LET last_complete == RFind(s, RB) - 1
         IN  IF last_complete > 0
             THEN SubSeq(s, 1, last_complete + 1)
             ELSE Append(s, RB)

\* AddClosingBraces closing one brace only
AddOneBrace(s) ==
    IF Count(s, LB) > Count(s, RB) THEN Append(s, RB) ELSE s

\* lines 468-471: the text the second json.loads is given
AddClosingBraces(s) ==
    LET open_braces  == Count(s, LB)
        close_braces == Count(s, RB)
    IN  IF open_braces > close_braces
        THEN s \o Repeat(RB, open_braces - close_braces)
        ELSE s

\* the except clause of lines 466-472
SecondParse(s, first) == IF first.ok THEN first ELSE Loads(AddClosingBraces(s))

\* lines 464-472: parse; on failure add the closing braces and parse again
ParseRepaired(s) == SecondParse(s, Loads(s))

\* MissingFields without its condition
MissingFieldsAll(doc) == RequiredFields

\* line 476: the required fields not in the parsed object, in list order
\* (the parsed text ends with }, so the document is an object)
MissingFields(doc) ==
    SelectSeq(RequiredFields, LAMBDA f : PyIn(f, doc) # "yes")

\* AddDefaults without the branches on the field name
RECURSIVE AddDefaultsSame(_, _)
AddDefaultsSame(doc, missing) ==
    IF missing = <<>> THEN doc
    ELSE AddDefaultsSame(PySetItem(doc, Head(missing), S("Evaluation in progress")).val,
                         Tail(missing))

\* AddDefaults leaving its loop after the first missing field
AddDefaultsFirst(doc, missing) ==
    IF missing = <<>> THEN doc
    ELSE PySetItem(doc, Head(missing), DefaultValue(Head(missing))).val

\* lines 479-496: every missing field is set to its default
RECURSIVE AddDefaults(_, _)
AddDefaults(doc, missing) ==
    IF missing = <<>> THEN doc
    ELSE AddDefaults(PySetItem(doc, Head(missing), DefaultValue(Head(missing))).val,
                     Tail(missing))

\* lines 508-520: parsed_json['vital_signs'][field] = default, field by field
SetVital(r, field) == IF r.ok THEN PySetItem(r.val, field, VitalDefault(field)) ELSE r

RECURSIVE SetVitals(_, _)
SetVitals(r, missing) ==
    IF missing = <<>> THEN r ELSE SetVitals(SetVital(r, Head(missing)), Tail(missing))

\* line 504: the vital signs not in parsed_json['vital_signs']
MissingVitals(vs) == SelectSeq(VitalFields, LAMBDA f : PyIn(f, vs) = "no")

VitalsResult(doc, missing_vitals, r) ==
    [ok |-> r.ok,
     val |-> IF r.ok THEN JObj(ObjSet(doc.v, <<"vital_signs">>, r.val)) ELSE doc,
     missing |-> missing_vitals]

VitalsOf(doc, vs) ==
    IF \E f \in Range(VitalFields) : PyIn(f, vs) = "TypeError"
    THEN [ok |-> FALSE, val |-> doc, missing |-> <<>>]
    ELSE VitalsResult(doc, MissingVitals(vs),
                      SetVitals([ok |-> TRUE, val |-> vs], MissingVitals(vs)))

\* lines 499-520: the vital signs not in parsed_json['vital_signs'] are set
\* to their defaults; [ok, val, missing], ok = FALSE standing for TypeError
VerifyVitals(doc) ==
    IF PyIn("vital_signs", doc) = "yes"
    THEN VitalsOf(doc, ObjGet(doc.v, <<"vital_signs">>))
    ELSE [ok |-> TRUE, val |-> doc, missing |-> <<>>]

NoReturn == <<>>

\* an attempt that raised
Raised(error, missing_fields, missing_vitals) ==
    [kind |-> error, ret |-> NoReturn,
     missing |-> missing_fields, missing_vitals |-> missing_vitals]

\* line 523: return json.dumps(parsed_json), unless line 504 or 510 raised
Returned(missing_fields, vit) ==
    IF vit.ok
    THEN [kind |-> "return", ret |-> Dumps(vit.val),
          missing |-> missing_fields, missing_vitals |-> vit.missing]
    ELSE Raised("TypeError", missing_fields, vit.missing)

\* lines 474-523 on the parsed document
Reconcile(doc, missing_fields) ==
    Returned(missing_fields, VerifyVitals(AddDefaults(doc, missing_fields)))

Extracted(parsed) ==
    IF parsed.ok THEN Reconcile(parsed.val, MissingFields(parsed.val))
    ELSE Raised("JSONDecodeError", <<>>, <<>>)

\* lines 438-530 on the "response" text of a 200 reply: what the attempt
\* returns or raises
ProcessReply(response_text) ==
    IF response_text = <<>> THEN Raised("ValueError", <<>>, <<>>)
    ELSE Extracted(ParseRepaired(CompletePartial(CleanText(response_text))))

(***************************************************************************)
(* The replies of the backend: documents it may mean to send, rendered as  *)
(* text and wrapped, truncated or replaced by prose as a language model    *)
(* does.                                                                   *)
(***************************************************************************)
\* how many trailing atoms a length-limited generation may lose
MaxCut == 2

BackendVitalValue(field) ==
    CASE field = "heart_rate"               -> JNum("88")
      [] field = "blood_pressure_systolic"  -> JNum("120")
      [] field = "blood_pressure_diastolic" -> JNum("80")
      [] field = "respiratory_rate"         -> JNum("16")
      [] field = "temperature"              -> JNum("36.6")
      [] field = "oxygen_saturation"        -> JNum("98")

\* a vital_signs object holding the sub-fields of the set have
VitalsWith(have) ==
    LET fs == SelectSeq(VitalFields, LAMBDA f : f \in have)
    IN  JObj([i \in 1..Len(fs) |-> [k |-> <<fs[i]>>, val |-> BackendVitalValue(fs[i])]])

BackendVitals == VitalsWith(Range(VitalFields))

VitalNames == [i \in 1..Len(VitalFields) |-> S(VitalFields[i])]

\* the six names in one string, separated by spaces
RECURSIVE NamesText(_)
NamesText(i) ==
    IF i > Len(VitalFields) THEN <<>>
    ELSE (IF i > 1 THEN <<SP>> ELSE <<>>) \o <<VitalFields[i]>> \o NamesText(i + 1)

ObjectVitals ==
    {VitalsWith(Range(VitalFields) \ {f}) : f \in Range(VitalFields)}
    \cup {BackendVitals, VitalsWith({}), VitalsWith({"heart_rate", "temperature"})}

OtherVitals ==
    {JNull, JLit("true"), JNum("1"), S("stable"), JStr(NamesText(1)),
     JArr(<<>>), JArr(VitalNames), JArr(<<S("heart_rate")>>)}

BackendValue(field) ==
    CASE field = "diagnosis"           -> S("sepsis")
      [] field = "recommended_actions" -> JArr(<<S("fluids"), S("antibiotics")>>)
      [] field = "vital_signs"         -> BackendVitals
      [] field = "risk_assessment"     -> S("high")
      [] field = "next_steps"          -> JArr(<<S("admit")>>)

FieldOrders ==
    {RequiredFields,
     <<"diagnosis", "recommended_actions", "risk_assessment", "next_steps", "vital_signs">>,
     <<"vital_signs", "diagnosis", "recommended_actions", "risk_assessment", "next_steps">>}

\* the object with the fields of present, in the given order; over maps a
\* field to its value and falls back on the backend's usual value
MkDoc(order, present, over) ==
    LET fs == SelectSeq(order, LAMBDA f : f \in present)
    IN  JObj([i \in 1..Len(fs) |->
                [k |-> <<fs[i]>>,
                 val |-> IF fs[i] \in DOMAIN over THEN over[fs[i]]
                         ELSE BackendValue(fs[i])]])

NoOver == [f \in {} |-> JNull]

Required == Range(RequiredFields)

BackendDocs ==
    {MkDoc(o, present, NoOver) : o \in FieldOrders, present \in SUBSET Required}
    \cup {MkDoc(o, Required, [f \in {"vital_signs"} |-> v]) :
            o \in FieldOrders, v \in ObjectVitals \cup OtherVitals}
    \cup {MkDoc(RequiredFields, Required, [f \in {g} |-> JNull]) : g \in Required}
    \cup {MkDoc(RequiredFields, Required, [f \in {"diagnosis"} |-> v]) :
            v \in {JStr(<<"a", RB, "b">>), JStr(<<LB, "a">>), S("Evaluation in progress")}}
    \cup {JObj(<<[k |-> <<"notes">>, val |-> S("none")]>> \o MkDoc(RequiredFields, Required, NoOver).v),
          JObj(<<[k |-> <<"a">>, val |-> JObj(<<[k |-> <<"b">>, val |-> JObj(<<[k |-> <<"c">>, val |-> JNum("1")]>>)]>>)]>>)}

\* the text the backend writes for a document
Render(d) == Dumps(d)

Wraps == {"plain", "padded", "fence_json", "fence", "prose_before", "prose_after"}

Wrap(w, t) ==
    CASE w = "plain"        -> t
      [] w = "padded"       -> <<NL, SP>> \o t \o <<SP, NL>>
      [] w = "fence_json"   -> <<FENCE, "json", NL>> \o t \o <<NL, FENCE>>
      [] w = "fence"        -> <<FENCE, NL>> \o t \o <<NL, FENCE, NL>>
      [] w = "prose_before" -> <<"Here", SP, "it", SP, "is", COL, NL>> \o t
      [] w = "prose_after"  -> t \o <<NL, "Hope", SP, "that", SP, "helps">>

\* a reply is [full, wrap, cut, text]: text is what arrives, full the JSON
\* text the backend meant, cut how many atoms of full were lost
MkReply(d, w, n) ==
    [full |-> Render(d), wrap |-> w, cut |-> n,
     text |-> Wrap(w, SubSeq(Render(d), 1, Len(Render(d)) - n))]

WrappedReplies == {MkReply(d, w, 0) : d \in BackendDocs, w \in Wraps}

TruncatedReplies == {MkReply(d, "plain", n) : d \in BackendDocs, n \in 1..MaxCut}

\* replies that are no JSON at all
ProseTexts ==
    {<<"I", SP, "cannot", SP, "help">>, <<SP, NL>>, <<"ok", RB>>, <<RB>>, <<RB, "ok">>,
     <<FENCE, "json", NL, FENCE>>, <<LK, "1", RK>>, <<QT, "text", QT>>, <<"null">>,
     <<LB>>, <<LB, LB>>, <<LB, RB, RB>>, <<LB, QT, "a", QT, COL, "1", COM, RB>>}

ProseReplies == {[full |-> t, wrap |-> "prose", cut |-> 0, text |-> t] : t \in ProseTexts}

Replies == WrappedReplies \cup TruncatedReplies \cup ProseReplies

VARIABLES
    x,      \* the reply-processing steps run one by one on one reply, or the caller's frame
    calls   \* the calls of _query_llm_with_retry in progress

vars == <<x, calls>>

(***************************************************************************)
(* What the backend may do to one attempt.  A probe behaviour answers the  *)
(* GET of line 407; a post behaviour [kind, code, text] answers the POST   *)
(* of line 414: an httpx exception, a status, or a 200 reply.              *)
(***************************************************************************)
ProbeBehaviours == {"ok", "bad_status", "ConnectError"}

Transport(kind) == [kind |-> kind, code |-> 0, text |-> <<>>]

Status(code) == [kind |-> "status", code |-> code, text |-> <<>>]

\* a 200 reply whose body is JSON with the text under "response"
Reply200(text) == [kind |-> "reply", code |-> 200, text |-> text]

\* a 200 reply whose body is no JSON: response.json() raises
BadBody == [kind |-> "bad_body", code |-> 200, text |-> <<>>]

\* a 200 reply whose JSON body has no "response" key
NoResponseKey == [kind |-> "no_response", code |-> 200, text |-> <<>>]

CompleteDoc == MkDoc(RequiredFields, Required, NoOver)

\* the reply texts the retry machine is run on
MachineTexts ==
    {MkReply(CompleteDoc, w, 0).text : w \in {"plain", "fence_json", "fence", "prose_before"}}
    \cup {MkReply(CompleteDoc, "plain", 1).text,
          MkReply(MkDoc(RequiredFields, {"diagnosis", "next_steps"}, NoOver), "plain", 0).text,
          MkReply(MkDoc(RequiredFields, Required,
                        [f \in {"vital_signs"} |-> VitalsWith({"heart_rate"})]), "plain", 0).text,
          MkReply(MkDoc(RequiredFields, Required, [f \in {"vital_signs"} |-> JNull]), "plain", 0).text,
          MkReply(MkDoc(RequiredFields, Required,
                        [f \in {"vital_signs"} |-> JArr(VitalNames)]), "plain", 0).text,
          MkReply(MkDoc(RequiredFields, Required, [f \in {"diagnosis"} |-> JNull]), "plain", 0).text,
          <<"I", SP, "cannot", SP, "help">>,
          <<>>}

MachineBehaviours ==
    {Transport(k) : k \in {"ReadTimeout", "ConnectTimeout", "ConnectError",
                           "WriteTimeout", "PoolTimeout"}}
    \cup {Status(404), Status(503), BadBody, NoResponseKey}
    \cup {Reply200(t) : t \in MachineTexts}

\* two mock transports for concurrent calls, each with a document of its own
MockDocA == MkDoc(RequiredFields, Required \ {"diagnosis"}, NoOver)

MockDocB ==
    MkDoc(RequiredFields, Required,
          [f \in {"diagnosis", "vital_signs"} |->
              IF f = "diagnosis" THEN S("asthma") ELSE VitalsWith({"heart_rate"})])

BackendOf(id) ==
    CASE id = "full"   -> MachineBehaviours
      [] id = "mock_a" -> {Transport("ReadTimeout"), Reply200(Render(MockDocA))}
      [] id = "mock_b" -> {BadBody, Status(404), Reply200(Render(MockDocB))}

(***************************************************************************)
(* One call of _query_llm_with_retry.                                      *)
(***************************************************************************)
\* the largest max_retries a call is started with
MaxRetriesBound == 3

\* the default of the parameter max_retries (line 399)
DefaultMaxRetries == 3

\* what lines 433-530 raise or return on the answer to the POST
PostResult(b) ==
    IF b.kind = "status"
    THEN Raised(IF b.code >= 200 /\ b.code < 300 THEN "ValueError" ELSE "HTTPStatusError",
                <<>>, <<>>)
    ELSE IF b.kind = "bad_body" THEN Raised("JSONDecodeError", <<>>, <<>>)
    ELSE IF b.kind = "no_response" THEN ProcessReply(<<>>)
    ELSE IF b.kind = "reply" THEN ProcessReply(b.text)
    ELSE Raised(b.kind, <<>>, <<>>)

\* Retryable with a status error sent to a retrying clause
RetryableWithStatus(err) ==
    err \in {"ReadTimeout", "ConnectTimeout", "ConnectError", "JSONDecodeError",
             "ValueError", "HTTPStatusError"}

\* Retryable without the clause of lines 540-544
RetryableNoParse(err) ==
    err \in {"ReadTimeout", "ConnectTimeout", "ConnectError", "ValueError"}

\* Retryable without the clause of lines 545-549
RetryableNoValue(err) ==
    err \in {"ReadTimeout", "ConnectTimeout", "ConnectError", "JSONDecodeError"}

\* the except clauses of lines 532-552: the clause an exception lands in
Retryable(err) ==
    err \in {"ReadTimeout", "ConnectTimeout", "ConnectError", "JSONDecodeError", "ValueError"}

\* the message of the Exception the clause raises
RaisedMessage(err, retryable) ==
    IF err \in {"ReadTimeout", "ConnectTimeout", "ConnectError"} /\ retryable
    THEN "Failed to get valid response after max_retries attempts"
    ELSE IF err = "HTTPStatusError" THEN "HTTP error"
    ELSE IF err = "JSONDecodeError" /\ retryable
    THEN "Failed to parse LLM response as valid JSON"
    ELSE IF err = "ValueError" /\ retryable THEN "Invalid response structure"
    ELSE "Error querying LLM"

\* LastAttempt off by one
LastAttemptOffByOne(attempt, max_retries) == attempt = max_retries

\* lines 534, 542, 547: the test that ends the call instead of sleeping
LastAttempt(attempt, max_retries) == attempt = max_retries - 1

\* BackoffDelay with the attempt counted from 1
BackoffFromOne(attempt) == 2 ^ (attempt + 1)

\* lines 536, 544, 549: asyncio.sleep(2 ** attempt)
BackoffDelay(attempt) == 2 ^ attempt

\* LoopContinues of a loop whose body runs once before the test
LoopContinuesOnce(attempt, max_retries) == attempt = 0 \/ attempt < max_retries

\* line 401: for attempt in range(max_retries)
LoopContinues(attempt, max_retries) == attempt < max_retries

Running == [kind |-> "running", message |-> ""]

NewCall(max_retries, backend) ==
    [pc |-> "idle", max_retries |-> max_retries, backend |-> backend,
     attempt |-> 0, net |-> <<>>, sleeps |-> <<>>, log |-> <<>>,
     outcome |-> Running, cancelled_at |-> "",
     ret |-> NoReturn, missing |-> <<>>, missing_vitals |-> <<>>]

Get(attempt)  == [op |-> "GET", attempt |-> attempt]

Post(attempt) == [op |-> "POST", attempt |-> attempt]

\* AttemptOf with the counter kept on the instance the calls share
AttemptShared(c) ==
    CHOOSE n \in {calls[d].attempt : d \in DOMAIN calls} :
        \A d \in DOMAIN calls : calls[d].attempt <= n

\* the loop variable of line 401 is a local of the call
AttemptOf(c) == calls[c].attempt

\* LoopHead with the health probe made before the first attempt only
LoopHeadProbeOnce(call, attempt) ==
    IF LoopContinues(attempt, call.max_retries)
    THEN (IF attempt = 0
          THEN [call EXCEPT !.pc = "probing", !.attempt = attempt,
                            !.net = Append(@, Get(attempt))]
          ELSE [call EXCEPT !.pc = "posting", !.attempt = attempt,
                            !.net = Append(@, Post(attempt))])
    ELSE [call EXCEPT !.pc = "done",
                      !.outcome = [kind |-> "returned_none", message |-> ""]]

\* the loop body starts with the health probe (line 407); a loop that is
\* over falls off the end of the function, which returns None
LoopHead(call, attempt) ==
    IF LoopContinues(attempt, call.max_retries)
    THEN [call EXCEPT !.pc = "probing", !.attempt = attempt,
                      !.net = Append(@, Get(attempt))]
    ELSE [call EXCEPT !.pc = "done",
                      !.outcome = [kind |-> "returned_none", message |-> ""]]

\* the call is made
Invoke(c) ==
    /\ calls[c].pc = "idle"
    /\ calls' = [calls EXCEPT ![c] = LoopHead(calls[c], 0)]
    /\ UNCHANGED x

\* what an attempt that raised err leads to (lines 532-552)
AfterError(call, attempt, b, err) ==
    IF Retryable(err) /\ ~LastAttempt(attempt, call.max_retries)
    THEN [call EXCEPT !.pc = "sleeping",
                      !.sleeps = Append(@, BackoffDelay(attempt)),
                      !.log = Append(@, [b |-> b, error |-> err,
                                         delay |-> BackoffDelay(attempt)])]
    ELSE [call EXCEPT !.pc = "done",
                      !.outcome = [kind |-> "raised",
                                   message |-> RaisedMessage(err, Retryable(err))],
                      !.log = Append(@, [b |-> b, error |-> err, delay |-> 0])]

ProbeFailed == [kind |-> "probe_failed", code |-> 0, text |-> <<>>]

\* AfterProbe with the POST sent before the outcome of the probe is looked at
AfterProbePosted(call, attempt, p) ==
    IF p = "ok"
    THEN [call EXCEPT !.pc = "posting", !.net = Append(@, Post(attempt))]
    ELSE AfterError([call EXCEPT !.net = Append(@, Post(attempt))],
                    attempt, ProbeFailed, "Exception")

\* lines 406-414: a probe that fails raises Exception("LLM service is not
\* available"), which only the last except clause catches; after a probe
\* that succeeds the POST is sent
AfterProbe(call, attempt, p) ==
    IF p = "ok"
    THEN [call EXCEPT !.pc = "posting", !.net = Append(@, Post(attempt))]
    ELSE AfterError(call, attempt, ProbeFailed, "Exception")

\* the answer to the health probe
ProbeReply(c) ==
    /\ calls[c].pc = "probing"
    /\ \E p \in ProbeBehaviours :
          calls' = [calls EXCEPT ![c] = AfterProbe(calls[c], AttemptOf(c), p)]
    /\ UNCHANGED x

\* the attempt returned: line 523 ends the call
AfterReturn(call, b, r) ==
    [call EXCEPT !.pc = "done",
                 !.outcome = [kind |-> "returned", message |-> ""],
                 !.ret = r.ret, !.missing = r.missing,
                 !.missing_vitals = r.missing_vitals,
                 !.log = Append(@, [b |-> b, error |-> "", delay |-> 0])]

AfterPost(call, attempt, b, r) ==
    IF r.kind = "return" THEN AfterReturn(call, b, r)
    ELSE AfterError(call, attempt, b, r.kind)

\* the answer to the POST (lines 414-552): the result is returned, or the
\* exception is handled
PostReply(c) ==
    /\ calls[c].pc = "posting"
    /\ \E b \in BackendOf(calls[c].backend) :
          calls' = [calls EXCEPT ![c] = AfterPost(calls[c], AttemptOf(c), b, PostResult(b))]
    /\ UNCHANGED x

\* the backoff sleep ends: the loop goes to its next attempt
Wake(c) ==
    /\ calls[c].pc = "sleeping"
    /\ calls' = [calls EXCEPT ![c] = LoopHead(calls[c], AttemptOf(c) + 1)]
    /\ UNCHANGED x

\* AfterCancel with the cancellation caught by the clause of line 550
AfterCancelCaught(call) ==
    [call EXCEPT !.pc = "done", !.cancelled_at = call.pc,
                 !.outcome = [kind |-> "raised", message |-> "Error querying LLM"]]

\* asyncio.CancelledError is raised at the await the task is suspended in.
\* It is a BaseException (Python >= 3.8, setup.py line 16): no except clause
\* of lines 409 and 532-550 catches it, and the sleeps are awaited from
\* inside an except clause, so it leaves the function at once.
AfterCancel(call) ==
    [call EXCEPT !.pc = "done", !.cancelled_at = call.pc,
                 !.outcome = [kind |-> "cancelled", message |-> "CancelledError"]]

\* the caller cancels the task at a suspension point
Cancel(c) ==
    /\ calls[c].pc \in {"probing", "posting", "sleeping"}
    /\ calls' = [calls EXCEPT ![c] = AfterCancel(calls[c])]
    /\ UNCHANGED x

NoCalls == [c \in {} |-> 0]

XIdle == [stage |-> "idle", reply |-> [full |-> <<>>, wrap |-> "", cut |-> 0, text |-> <<>>],
          text |-> <<>>, parsed |-> JNull, doc |-> JNull,
          missing |-> <<>>, missing_vitals |-> <<>>, error |-> "", ret |-> NoReturn]

InitExtract ==
    /\ \E r \in Replies \cup {[full |-> <<>>, wrap |-> "prose", cut |-> 0, text |-> <<>>]} :
          x = [XIdle EXCEPT !.stage = "raw", !.reply = r, !.text = r.text]
    /\ calls = NoCalls

\* lines 438-450
X_Clean ==
    /\ x.stage = "raw"
    /\ x' = IF x.text = <<>>
            THEN [x EXCEPT !.stage = "raised", !.error = "ValueError"]
            ELSE [x EXCEPT !.stage = "cleaned", !.text = CleanText(x.text)]
    /\ UNCHANGED calls

\* lines 454-461
X_Complete ==
    /\ x.stage = "cleaned"
    /\ x' = [x EXCEPT !.stage = "completed", !.text = CompletePartial(x.text)]
    /\ UNCHANGED calls

\* lines 464-471: response_text once the parsing is over; line 471 appends
\* the braces to it when the first json.loads failed
RepairedText(s, first) == IF first.ok THEN s ELSE AddClosingBraces(s)

\* lines 464-472: text is response_text after them, r what was parsed
ParseStep(st, text, r) ==
    IF r.ok
    THEN [st EXCEPT !.stage = "parsed", !.text = text, !.parsed = r.val, !.doc = r.val]
    ELSE [st EXCEPT !.stage = "raised", !.text = text, !.error = "JSONDecodeError"]

X_Parse ==
    /\ x.stage = "completed"
    /\ x' = ParseStep(x, RepairedText(x.text, Loads(x.text)), ParseRepaired(x.text))
    /\ UNCHANGED calls

\* lines 474-496
DefaultStep(st, missing_fields) ==
    [st EXCEPT !.stage = "defaulted", !.missing = missing_fields,
               !.doc = AddDefaults(st.doc, missing_fields)]

X_Default ==
    /\ x.stage = "parsed"
    /\ x' = DefaultStep(x, MissingFields(x.doc))
    /\ UNCHANGED calls

\* lines 498-523
VitalsStep(st, r) ==
    IF r.ok
    THEN [st EXCEPT !.stage = "returned", !.doc = r.val,
                    !.missing_vitals = r.missing, !.ret = Dumps(r.val)]
    ELSE [st EXCEPT !.stage = "raised", !.error = "TypeError",
                    !.missing_vitals = r.missing]

X_Vitals ==
    /\ x.stage = "defaulted"
    /\ x' = VitalsStep(x, VerifyVitals(x.doc))
    /\ UNCHANGED calls

NextExtract == X_Clean \/ X_Complete \/ X_Parse \/ X_Default \/ X_Vitals

SpecExtract == InitExtract /\ [][NextExtract]_vars

(***************************************************************************)
(* One call, against a backend free to do anything to every attempt.       *)
(***************************************************************************)
Init ==
    /\ x = XIdle
    /\ \E m \in -1..MaxRetriesBound : calls = [c \in {"call"} |-> NewCall(m, "full")]

Next ==
    \/ \E c \in DOMAIN calls : Invoke(c)
    \/ \E c \in DOMAIN calls : ProbeReply(c)
    \/ \E c \in DOMAIN calls : PostReply(c)
    \/ \E c \in DOMAIN calls : Wake(c)
    \/ \E c \in DOMAIN calls : Cancel(c)

Spec == Init /\ [][Next]_vars

(***************************************************************************)
(* Concurrent calls on one HealthcareOperations, each with a mock          *)
(* transport of its own.                                                   *)
(***************************************************************************)
ConcurrentCalls == {"mock_a", "mock_b"}

InitConcurrent ==
    /\ x = XIdle
    /\ \E m \in [ConcurrentCalls -> 1..MaxRetriesBound] :
          calls = [c \in ConcurrentCalls |-> NewCall(m[c], c)]

SpecConcurrent == InitConcurrent /\ [][Next]_vars

(***************************************************************************)
(* Vocabulary of the properties.                                           *)
(***************************************************************************)
NetOps(call, op) == Cardinality({i \in 1..Len(call.net) : call.net[i].op = op})

Behaviours(log) == [i \in 1..Len(log) |-> log[i].b]

IsPrefix(p, q) == Len(p) <= Len(q) /\ \A i \in 1..Len(p) : p[i] = q[i]

AllRetryable(log) == \A i \in 1..Len(log) : Retryable(log[i].error)

ExhaustedMessages ==
    {"Failed to get valid response after max_retries attempts",
     "Failed to parse LLM response as valid JSON",
     "Invalid response structure"}

\* every required field and every vital sign is a key of the document
IsCompleteDoc(d) ==
    /\ d.t = "obj"
    /\ \A f \in Required : ObjHas(d.v, <<f>>)
    /\ ObjGet(d.v, <<"vital_signs">>).t = "obj"
    /\ \A f \in Range(VitalFields) : ObjHas(ObjGet(d.v, <<"vital_signs">>).v, <<f>>)

\* the backend of C1: 503, 503, then the complete document
Script503 == <<Status(503), Status(503), Reply200(Render(CompleteDoc))>>

(***************************************************************************)
(* C1.  With the default max_retries, a backend that answers the POST with *)
(* 503, 503 and then a complete JSON reply is given three POSTs, with      *)
(* sleeps of 1 and 2 seconds between them, and the call returns.  Stated   *)
(* on the finished call: a call that ended (not by cancellation) on the    *)
(* answers of this backend has used all three of them and has returned.    *)
(* The code ends the call on the first 503 instead (line 537-539).         *)
(***************************************************************************)
C1_RetriesAfter503 ==
    \A c \in DOMAIN calls :
        LET call == calls[c]
        IN  ( /\ call.max_retries = DefaultMaxRetries
              /\ call.pc = "done"
              /\ call.outcome.kind # "cancelled"
              /\ Len(call.log) >= 1
              /\ IsPrefix(Behaviours(call.log), Script503) )
            => /\ call.outcome.kind = "returned"
               /\ NetOps(call, "POST") = 3
               /\ call.sleeps = <<1, 2>>

(***************************************************************************)
(* C2.  A 404 on the first POST ends the call there: one GET and one POST  *)
(* were issued and none follows, no sleep was started, and the exception   *)
(* raised is the one that reports the HTTP status.                         *)
(***************************************************************************)
C2_Abort404 ==
    \A c \in DOMAIN calls :
        LET call == calls[c]
        IN  (Len(call.log) >= 1 /\ call.log[1].b = Status(404))
            => /\ call.pc = "done"
               /\ call.outcome = [kind |-> "raised", message |-> "HTTP error"]
               /\ call.net = <<Get(0), Post(0)>>
               /\ call.sleeps = <<>>
               /\ Len(call.log) = 1

C2_Witness ==
    \E c \in DOMAIN calls :
        /\ Len(calls[c].log) = 1
        /\ calls[c].log[1].b = Status(404)
        /\ calls[c].pc = "done"

(***************************************************************************)
(* C3.  With max_retries >= 1 a call never starts more than max_retries    *)
(* attempts, and when every attempt failed with an error the except        *)
(* clauses retry, the call ends, with one of the exhausted-retries         *)
(* exceptions, exactly when attempt number max_retries has failed, with no *)
(* sleep after it.                                                         *)
(***************************************************************************)
C3_AttemptsCapped ==
    \A c \in DOMAIN calls :
        LET call == calls[c]
        IN  call.max_retries >= 1
            => /\ NetOps(call, "GET") <= call.max_retries
               /\ NetOps(call, "POST") <= call.max_retries
               /\ Len(call.log) <= call.max_retries
               /\ (AllRetryable(call.log) /\ Len(call.log) = call.max_retries)
                  => /\ call.pc = "done"
                     /\ call.outcome.kind = "raised"
                     /\ call.outcome.message \in ExhaustedMessages
                     /\ Len(call.sleeps) = call.max_retries - 1
               /\ (AllRetryable(call.log) /\ call.pc = "done"
                   /\ call.outcome.kind = "raised")
                  => Len(call.log) = call.max_retries

C3_Witness ==
    \E c \in DOMAIN calls :
        /\ calls[c].max_retries = DefaultMaxRetries
        /\ Len(calls[c].log) = DefaultMaxRetries
        /\ AllRetryable(calls[c].log)
        /\ calls[c].outcome.kind = "raised"

(***************************************************************************)
(* C7.  A value the call returns has every required field and, under       *)
(* vital_signs, every vital sign.  The code returns a vital_signs that is  *)
(* a list or a string in which the six names occur (line 504 asks `in`).   *)
(***************************************************************************)
C7_ReturnedComplete ==
    \A c \in DOMAIN calls :
        calls[c].outcome.kind = "returned" => IsCompleteDoc(Loads(calls[c].ret).val)

(***************************************************************************)
(* C9.  A call cancelled in the sleep after its first attempt is over at   *)
(* once, as cancelled: one attempt is on record, and the GET and the POST  *)
(* of that attempt are all it ever issued.                                 *)
(***************************************************************************)
C9_CancelInBackoff ==
    \A c \in DOMAIN calls :
        LET call == calls[c]
        IN  (call.cancelled_at = "sleeping" /\ call.attempt = 0)
            => /\ call.pc = "done"
               /\ call.outcome.kind = "cancelled"
               /\ Len(call.log) = 1
               /\ call.net = <<Get(0), Post(0)>>
               /\ call.sleeps = <<1>>

C9_Witness ==
    \E c \in DOMAIN calls :
        /\ calls[c].cancelled_at = "sleeping"
        /\ calls[c].attempt = 0
        /\ calls[c].pc = "done"

(***************************************************************************)
(* C10.  Calls in flight together do not touch each other: at every moment *)
(* a call's sleeps and attempts, and at its end its outcome, returned text *)
(* and defaulted fields, are those of the loop of lines 401-552 run alone  *)
(* on the answers its own backend gave it.                                 *)
(***************************************************************************)
AloneResult(kind, message, attempts, sleeps, r) ==
    [kind |-> kind, message |-> message, attempts |-> attempts, sleeps |-> sleeps,
     ret |-> r.ret, missing |-> r.missing, missing_vitals |-> r.missing_vitals]

AttemptResult(b) ==
    IF b.kind = "probe_failed" THEN Raised("Exception", <<>>, <<>>) ELSE PostResult(b)

RECURSIVE RunAlone(_, _, _, _)

AloneStep(max_retries, bs, attempt, sleeps, r) ==
    IF r.kind = "return" THEN AloneResult("returned", "", attempt + 1, sleeps, r)
    ELSE IF attempt # max_retries - 1
            /\ r.kind \in {"ReadTimeout", "ConnectTimeout", "ConnectError",
                           "JSONDecodeError", "ValueError"}
    THEN RunAlone(max_retries, bs, attempt + 1, Append(sleeps, 2 ^ attempt))
    ELSE AloneResult("raised", RaisedMessage(r.kind, Retryable(r.kind)),
                     attempt + 1, sleeps, Raised("", <<>>, <<>>))

RunAlone(max_retries, bs, attempt, sleeps) ==
    IF attempt >= max_retries
    THEN AloneResult("returned_none", "", attempt, sleeps, Raised("", <<>>, <<>>))
    ELSE IF attempt + 1 > Len(bs)
    THEN AloneResult("running", "", attempt, sleeps, Raised("", <<>>, <<>>))
    ELSE AloneStep(max_retries, bs, attempt, sleeps, AttemptResult(bs[attempt + 1]))

AgreesWithAlone(call, alone) ==
    /\ \A i \in 1..Len(call.log) : call.log[i].b \in BackendOf(call.backend) \cup {ProbeFailed}
    /\ call.sleeps = alone.sleeps
    /\ call.pc = "sleeping" => Len(call.log) = alone.attempts
    /\ (call.pc = "done" /\ call.outcome.kind # "cancelled")
       => /\ call.outcome = [kind |-> alone.kind, message |-> alone.message]
          /\ Len(call.log) = alone.attempts
          /\ call.ret = alone.ret
          /\ call.missing = alone.missing
          /\ call.missing_vitals = alone.missing_vitals

C10_CallsIndependent ==
    \A c \in DOMAIN calls :
        AgreesWithAlone(calls[c],
                        RunAlone(calls[c].max_retries, Behaviours(calls[c].log), 0, <<>>))

\* both calls are over, one returned with defaulted fields after a retry
\* while the other was in flight
C10_Witness ==
    /\ \A c \in DOMAIN calls : calls[c].pc = "done"
    /\ calls["mock_a"].outcome.kind = "returned"
    /\ calls["mock_a"].sleeps = <<1>>
    /\ calls["mock_a"].missing = <<"diagnosis">>
    /\ calls["mock_b"].outcome.kind = "returned"
    /\ calls["mock_b"].sleeps = <<1, 2>>
    /\ calls["mock_b"].missing = <<>>

(***************************************************************************)
(* C4.  A valid JSON object reply that lost only its final } is extracted  *)
(* and repaired to the document the whole reply parses to.  The code cuts  *)
(* the text after its last remaining } (lines 456-458), so the fields      *)
(* after a nested object are lost.                                         *)
(***************************************************************************)
LostFinalBrace(reply) ==
    /\ reply.wrap = "plain"
    /\ reply.cut = 1
    /\ EndsWith(reply.full, RB)
    /\ Loads(reply.full).ok

C4_TruncationRepaired ==
    LostFinalBrace(x.reply)
    => /\ ~(x.stage = "raised" /\ x.error = "JSONDecodeError")
       /\ x.stage \in {"parsed", "defaulted", "returned"}
          => DocEq(x.parsed, Loads(x.reply.full).val)

(***************************************************************************)
(* C5.  A reply that is a valid JSON object with the five required fields  *)
(* and the six vital signs is returned as the document it parses to: no    *)
(* step raises, no field is defaulted.                                     *)
(***************************************************************************)
IsCompleteReply(text) == Loads(text).ok /\ IsCompleteDoc(Loads(text).val)

C5_CompleteRoundTrip ==
    IsCompleteReply(x.reply.text)
    => /\ x.stage # "raised"
       /\ x.stage \in {"parsed", "defaulted", "returned"}
          => DocEq(x.parsed, Loads(x.reply.text).val)
       /\ x.stage \in {"defaulted", "returned"} => x.missing = <<>>
       /\ x.stage = "returned"
          => /\ x.missing_vitals = <<>>
             /\ DocEq(Loads(x.ret).val, Loads(x.reply.text).val)

C5_Witness ==
    /\ x.stage = "returned"
    /\ IsCompleteReply(x.reply.text)
    /\ x.reply.wrap = "padded"

(***************************************************************************)
(* C6.  After the pass of lines 474-496 over a parsed reply that lacks the *)
(* required fields M, missing_fields holds exactly M, the fields of M hold *)
(* their defaults and every key of the reply holds the value parsed; in    *)
(* the value returned the same is true, the vital signs the backend sent   *)
(* keeping their values inside vital_signs.                                *)
(***************************************************************************)
MissingOf(parsed) == {f \in Required : ~ObjHas(parsed.v, <<f>>)}

\* the value out of a key whose parsed value was was
KeptValue(key, was, out) ==
    IF key = <<"vital_signs">> /\ was.t = "obj"
    THEN /\ out.t = "obj"
         /\ \A k \in ObjKeys(was.v) : DocEq(ObjGet(out.v, k), ObjGet(was.v, k))
    ELSE DocEq(out, was)

DefaultedExactly(parsed, missing_fields, doc, exact) ==
    /\ Range(missing_fields) = MissingOf(parsed)
    /\ Len(missing_fields) = Cardinality(MissingOf(parsed))
    /\ doc.t = "obj"
    /\ ObjKeys(doc.v) = ObjKeys(parsed.v) \cup {<<f>> : f \in MissingOf(parsed)}
    /\ \A f \in MissingOf(parsed) : DocEq(ObjGet(doc.v, <<f>>), DefaultValue(f))
    /\ \A k \in ObjKeys(parsed.v) :
          IF exact THEN DocEq(ObjGet(doc.v, k), ObjGet(parsed.v, k))
          ELSE KeptValue(k, ObjGet(parsed.v, k), ObjGet(doc.v, k))

C6_DefaultsExactlyMissing ==
    /\ x.stage = "defaulted" => DefaultedExactly(x.parsed, x.missing, x.doc, TRUE)
    /\ x.stage = "returned"
       => DefaultedExactly(x.parsed, x.missing, Loads(x.ret).val, FALSE)

C6_Witness ==
    /\ x.stage = "returned"
    /\ MissingOf(x.parsed) = {"diagnosis", "vital_signs"}
    /\ x.missing = <<"diagnosis", "vital_signs">>

(***************************************************************************)
(* C8.  A reply text without any { ends extraction in a failure of its own *)
(* kind, never in the parse failure.  The code appends } to such a text    *)
(* and lets json.loads raise JSONDecodeError (lines 459-472), the          *)
(* exception of an unparseable reply.                                      *)
(***************************************************************************)
C8_NoBraceNotParseFailure ==
    Count(x.reply.text, LB) = 0
    => ~(x.stage = "raised" /\ x.error = "JSONDecodeError")

(***************************************************************************)
(* simulate_scenario (lines 274-397) around one call of                    *)
(* _query_llm_with_retry.  In this specification x is the frame of         *)
(* simulate_scenario: stage "awaiting" while the call of line 374 runs,    *)
(* then "responded" with the SimulationResponse returned, or "raised" with *)
(* the exception that leaves the function.                                 *)
(***************************************************************************)
Awaiting == [stage |-> "awaiting", error |-> "", message |-> "", response |-> JNull]

ScenarioRaised(error, message) ==
    [stage |-> "raised", error |-> error, message |-> message, response |-> JNull]

ScenarioResponded(doc) ==
    [stage |-> "responded", error |-> "", message |-> "", response |-> doc]

IsListOfStr(v) == v.t = "arr" /\ \A i \in 1..Len(v.v) : v.v[i].t = "str"

\* the field types of SimulationResponse (models.py lines 66-72): str,
\* List[str], Dict[str, Any], str, List[str], all required.  None and a
\* list given for the dict are rejected by every pydantic version; a number
\* given for a str is rejected by pydantic 2, which the repository's
\* models use (field_validator).
FieldValid(field, v) ==
    IF field \in {"diagnosis", "risk_assessment"} THEN v.t = "str"
    ELSE IF field \in {"recommended_actions", "next_steps"} THEN IsListOfStr(v)
    ELSE v.t = "obj"

\* lines 383-389
BuildResponse(doc) ==
    IF \A f \in Required : FieldValid(f, ObjGet(doc.v, <<f>>))
    THEN ScenarioResponded(JObj([i \in 1..Len(RequiredFields) |->
                                   [k |-> <<RequiredFields[i]>>,
                                    val |-> ObjGet(doc.v, <<RequiredFields[i]>>)]]))
    ELSE ScenarioRaised("ValidationError", "validation error for SimulationResponse")

\* lines 378-389
ValidateResponse(doc) ==
    IF \E f \in Required : PyIn(f, doc) = "TypeError"
    THEN ScenarioRaised("TypeError", "argument is not iterable")
    ELSE IF \E f \in Required : PyIn(f, doc) = "no"
    THEN ScenarioRaised("ValueError", "Incomplete response structure from LLM")
    ELSE BuildResponse(doc)

\* line 375 and the clause of lines 391-393
ParseResponse(r) ==
    IF r.ok THEN ValidateResponse(r.val)
    ELSE ScenarioRaised("ValueError", "Failed to parse LLM response as valid JSON")

\* lines 374-397 once the call of line 374 is over: an exception of the call
\* passes through the clause of lines 395-397, which raises it again; None
\* given to json.loads is a TypeError
AfterQuery(call) ==
    IF call.outcome.kind = "cancelled" THEN ScenarioRaised("CancelledError", "")
    ELSE IF call.outcome.kind = "raised"
    THEN ScenarioRaised("Exception", call.outcome.message)
    ELSE IF call.outcome.kind = "returned_none"
    THEN ScenarioRaised("TypeError", "the JSON object must be str, bytes or bytearray, not NoneType")
    ELSE ParseResponse(Loads(call.ret))

ScenarioEnd(c) ==
    /\ x.stage = "awaiting"
    /\ calls[c].pc = "done"
    /\ x' = AfterQuery(calls[c])
    /\ UNCHANGED calls

\* line 374 passes no max_retries: the call runs with the default
InitScenario ==
    /\ x = Awaiting
    /\ calls = [c \in {"call"} |-> NewCall(DefaultMaxRetries, "full")]

NextScenario ==
    \/ \E c \in DOMAIN calls : Invoke(c)
    \/ \E c \in DOMAIN calls : ProbeReply(c)
    \/ \E c \in DOMAIN calls : PostReply(c)
    \/ \E c \in DOMAIN calls : Wake(c)
    \/ \E c \in DOMAIN calls : Cancel(c)
    \/ \E c \in DOMAIN calls : ScenarioEnd(c)

SpecScenario == InitScenario /\ [][NextScenario]_vars

\* the exceptions _query_llm_with_retry raises by design (lines 535-552)
PipelineFailures ==
    ExhaustedMessages \cup {"HTTP error", "Error querying LLM"}

(***************************************************************************)
(* C11.  The pipeline ends in one of its outcomes: a response, or a        *)
(* failure of one of its kinds (an exception of lines 535-552, or the      *)
(* cancellation); no other error leaves simulate_scenario.  The code lets  *)
(* the validation error of SimulationResponse (line 383) escape when the   *)
(* call returned a null field or a vital_signs that is no object.          *)
(***************************************************************************)
C11_TypedOutcome ==
    /\ x.stage \in {"awaiting", "responded", "raised"}
    /\ x.stage = "raised"
       => \/ x.error = "CancelledError"
          \/ x.error = "Exception" /\ x.message \in PipelineFailures

(***************************************************************************)
(* C12.  An attempt that failed with a timeout of any phase, a connection  *)
(* failure, a failed health probe or a 5xx status, and was not the last    *)
(* attempt allowed, is followed by a backoff sleep.  The code retries      *)
(* ReadTimeout, ConnectTimeout and ConnectError only (line 532): the other *)
(* failures end the call (lines 537-539 and 550-552).                      *)
(***************************************************************************)
TransportFailure(b) ==
    \/ b.kind \in {"ReadTimeout", "ConnectTimeout", "WriteTimeout", "PoolTimeout",
                   "ConnectError", "probe_failed"}
    \/ b.kind = "status" /\ b.code >= 500 /\ b.code <= 599

C12_TransportRetried ==
    \A c \in DOMAIN calls :
        \A i \in 1..Len(calls[c].log) :
            (TransportFailure(calls[c].log[i].b) /\ i < calls[c].max_retries)
            => calls[c].log[i].delay > 0

(***************************************************************************)
(* C13.  As claimed: whatever maximum delay is configured, the n-th sleep  *)
(* of a call lasts min(2^(n-1), maximum) seconds.  The code has no maximum *)
(* delay: the sleep after the n-th failed attempt lasts 2^(n-1) seconds.   *)
(***************************************************************************)
Min(a, b) == IF a <= b THEN a ELSE b

\* maximum delays a configuration could ask for
DelayCaps == {1, 2, 60}

C13_BackoffCapped ==
    \A c \in DOMAIN calls :
        \A cap \in DelayCaps :
            \A n \in 1..Len(calls[c].sleeps) :
                calls[c].sleeps[n] = Min(2 ^ (n - 1), cap)

\* C13, amended: the sleep after the n-th failed attempt that is retried
\* lasts 2^(n-1) seconds, twice the sleep before it, with no upper limit
\* other than the one max_retries implies
C13_BackoffDoubles ==
    \A c \in DOMAIN calls :
        /\ \A n \in 1..Len(calls[c].sleeps) :
              /\ calls[c].sleeps[n] = 2 ^ (n - 1)
              /\ n > 1 => calls[c].sleeps[n] = 2 * calls[c].sleeps[n - 1]
              /\ n <= Len(calls[c].log) /\ calls[c].log[n].delay = calls[c].sleeps[n]
        /\ \A n \in 1..Len(calls[c].log) :
              calls[c].log[n].delay > 0 => n <= Len(calls[c].sleeps)

C13_Witness ==
    \E c \in DOMAIN calls :
        /\ calls[c].sleeps = <<1, 2>>
        /\ calls[c].pc = "done"

(***************************************************************************)
(* C14.  An attempt whose health probe failed ends with the exception of   *)
(* line 411 (the service is not available) and has sent no POST: the GET   *)
(* is the last request of that attempt.                                    *)
(***************************************************************************)
C14_ProbeShortCircuits ==
    \A c \in DOMAIN calls :
        \A i \in 1..Len(calls[c].log) :
            calls[c].log[i].b = ProbeFailed
            => /\ calls[c].log[i].error = "Exception"
               /\ \E j \in 1..Len(calls[c].net) : calls[c].net[j] = Get(i - 1)
               /\ \A j \in 1..Len(calls[c].net) : calls[c].net[j] # Post(i - 1)

C14_Witness ==
    \E c \in DOMAIN calls :
        /\ Len(calls[c].log) = 2
        /\ calls[c].log[2].b = ProbeFailed
        /\ calls[c].net = <<Get(0), Post(0), Get(1)>>

(***************************************************************************)
(* C15.  As claimed: parse failures have a retry budget of their own, so a *)
(* call that gave up on parse failures has had max_retries of them, and a  *)
(* call that gave up on transport failures max_retries of those.  The code *)
(* counts every attempt with the one loop variable of line 401.            *)
(***************************************************************************)
FailuresOf(log, errors) == Cardinality({i \in 1..Len(log) : log[i].error \in errors})

C15_SeparateBudgets ==
    \A c \in DOMAIN calls :
        /\ calls[c].outcome.message = "Failed to parse LLM response as valid JSON"
           => FailuresOf(calls[c].log, {"JSONDecodeError"}) = calls[c].max_retries
        /\ calls[c].outcome.message = "Failed to get valid response after max_retries attempts"
           => FailuresOf(calls[c].log, {"ReadTimeout", "ConnectTimeout", "ConnectError"})
              = calls[c].max_retries

\* C15, amended: an attempt whose reply cannot be parsed even after repair
\* is retried after a sleep unless it was attempt number max_retries; parse
\* and transport failures share the one budget of max_retries attempts, and
\* a call gives up on the failure of attempt number max_retries whatever
\* the kinds of the failures before it
C15_SharedBudget ==
    \A c \in DOMAIN calls :
        /\ \A i \in 1..Len(calls[c].log) :
              calls[c].log[i].error = "JSONDecodeError"
              => IF i < calls[c].max_retries
                 THEN calls[c].log[i].delay > 0
                 ELSE /\ i = calls[c].max_retries
                      /\ calls[c].outcome.message = "Failed to parse LLM response as valid JSON"
        /\ calls[c].outcome.message \in ExhaustedMessages
           => /\ Len(calls[c].log) = calls[c].max_retries
              /\ AllRetryable(calls[c].log)

\* a call that gave up on a parse failure after a timeout and a parse failure
C15_Witness ==
    \E c \in DOMAIN calls :
        /\ calls[c].outcome.message = "Failed to parse LLM response as valid JSON"
        /\ Len(calls[c].log) = 3
        /\ calls[c].log[1].error = "ReadTimeout"
        /\ calls[c].log[2].error = "JSONDecodeError"

(***************************************************************************)
(* C16.  An attempt whose reply text has no { ends the call: no sleep and  *)
(* no attempt follow it.  The code treats that reply as any reply          *)
(* json.loads rejects and retries it (lines 540-544).                      *)
(***************************************************************************)
IsNotJSON(b) == b.kind = "reply" /\ b.text # <<>> /\ Count(b.text, LB) = 0

C16_NotJSONFatal ==
    \A c \in DOMAIN calls :
        \A i \in 1..Len(calls[c].log) :
            IsNotJSON(calls[c].log[i].b)
            => /\ calls[c].log[i].delay = 0
               /\ Len(calls[c].log) = i
               /\ calls[c].pc = "done"

(***************************************************************************)
(* C17.  A required field the reply holds with the value null is handled   *)
(* as a field the reply lacks: after the passes of lines 474-520 it is in  *)
(* missing_fields and holds its default, in the value returned too.  The   *)
(* code asks `field not in parsed_json` (line 476), which a null value     *)
(* does not satisfy: the null stays.                                       *)
(***************************************************************************)
NullFields(parsed) ==
    {f \in Required : ObjHas(parsed.v, <<f>>) /\ DocEq(ObjGet(parsed.v, <<f>>), JNull)}

DefaultedIn(doc, missing_fields, f) ==
    /\ f \in Range(missing_fields)
    /\ DocEq(ObjGet(doc.v, <<f>>), DefaultValue(f))

C17_NullDefaulted ==
    /\ x.stage \in {"defaulted", "returned"}
       => \A f \in NullFields(x.parsed) : DefaultedIn(x.doc, x.missing, f)
    /\ x.stage = "returned"
       => \A f \in NullFields(x.parsed) : DefaultedIn(Loads(x.ret).val, x.missing, f)

(***************************************************************************)
(* C19.  Once a reply is parsed, the passes of lines 474-523 raise nothing *)
(* and end with a document that has every required field and every vital  *)
(* sign.  The code raises TypeError at line 504 on a vital_signs that is   *)
(* null, a number or a boolean, and at lines 510-520 on a string or a list *)
(* that lacks one of the names.                                            *)
(***************************************************************************)
C19_ReconcileTotal ==
    /\ x.stage = "raised" => x.error \in {"ValueError", "JSONDecodeError"}
    /\ x.stage = "raised" => x.parsed = JNull
    /\ x.stage = "returned" => IsCompleteDoc(x.doc)

(***************************************************************************)
(* OllamaService (ollama_service.py): generate_response and                *)
(* simulate_healthcare_scenario.  The keys and texts of the default        *)
(* scenario are Hebrew in the source; each is one atom here, written as    *)
(* its English gloss between angle brackets.                               *)
(***************************************************************************)
Pair(k, val) == [k |-> <<k>>, val |-> val]

\* lines 54-57: the structure returned for a reply that is no JSON
PlainText(response_text) ==
    JObj(<<Pair("text", JStr(response_text)), Pair("format", S("plain_text"))>>)

\* lines 45-49: the text up to its last closing brace, parsed
ParseUpTo(response_text, cleaned_text, last_brace_index) ==
    IF Loads(SubSeq(cleaned_text, 1, last_brace_index)).ok
    THEN Loads(SubSeq(cleaned_text, 1, last_brace_index)).val
    ELSE PlainText(response_text)

\* lines 41-57: str.rindex raises ValueError when the text has no closing
\* brace, and the clause of line 50 catches it
ParseOrPlain(response_text, cleaned_text) ==
    IF RFind(cleaned_text, RB) = 0 THEN PlainText(response_text)
    ELSE ParseUpTo(response_text, cleaned_text, RFind(cleaned_text, RB))

Generated(val) == [ok |-> TRUE, val |-> val, error |-> ""]

GenerateFailed(error) == [ok |-> FALSE, val |-> JNull, error |-> error]

\* GenerateResponse without the inner try of lines 39-57
GenerateResponseStrict(b) ==
    IF b.kind = "status"
    THEN (IF b.code >= 200 /\ b.code < 300
          THEN GenerateFailed("ValueError")
          ELSE GenerateFailed("HTTPStatusError"))
    ELSE IF b.kind = "bad_body" THEN GenerateFailed("JSONDecodeError")
    ELSE IF b.kind = "no_response" THEN GenerateFailed("ValueError")
    ELSE IF b.kind = "reply"
    THEN (IF RFind(Strip(b.text), RB) = 0 THEN GenerateFailed("ValueError")
          ELSE IF Loads(SubSeq(Strip(b.text), 1, RFind(Strip(b.text), RB))).ok
          THEN Generated(Loads(SubSeq(Strip(b.text), 1, RFind(Strip(b.text), RB))).val)
          ELSE GenerateFailed("JSONDecodeError"))
    ELSE GenerateFailed(b.kind)

\* lines 29-60 on the answer b to the POST: the exceptions of the request
\* and of response.json() are raised again by the clause of lines 58-60
GenerateResponse(b) ==
    IF b.kind = "status"
    THEN (IF b.code >= 200 /\ b.code < 300
          THEN Generated(PlainText(<<>>))
          ELSE GenerateFailed("HTTPStatusError"))
    ELSE IF b.kind = "bad_body" THEN GenerateFailed("JSONDecodeError")
    ELSE IF b.kind = "no_response" THEN Generated(PlainText(<<>>))
    ELSE IF b.kind = "reply" THEN Generated(ParseOrPlain(b.text, Strip(b.text)))
    ELSE GenerateFailed(b.kind)

\* the vital signs of the default scenario (lines 111-116)
ScenarioVitalFields == <<"<pulse>", "<respirations>", "<temperature>", "<blood pressure>">>

ScenarioVitalDefault(field) ==
    CASE field = "<pulse>"          -> JNum("72")
      [] field = "<respirations>"   -> JNum("16")
      [] field = "<temperature>"    -> JNum("36.6")
      [] field = "<blood pressure>" -> S("120/80")

ScenarioVitals(have, value) ==
    JObj(SelectSeq([i \in 1..Len(ScenarioVitalFields) |->
                       Pair(ScenarioVitalFields[i],
                            IF ScenarioVitalFields[i] \in DOMAIN value
                            THEN value[ScenarioVitalFields[i]]
                            ELSE ScenarioVitalDefault(ScenarioVitalFields[i]))],
                   LAMBDA p : p.k[1] \in have))

DefaultScenarioVitals == ScenarioVitals(Range(ScenarioVitalFields), NoOver)

CurrentState(status, vital_signs) ==
    JObj(<<Pair("patient_status", status),
           Pair("vital_signs", vital_signs),
           Pair("current_interventions", JArr(<<S("<check vital signs>")>>))>>)

ScenarioNextSteps ==
    JObj(<<Pair("action", S("<continue primary assessment>")),
           Pair("protocol_reference", S("<MDA advanced protocols 2023, chapter 1>")),
           Pair("expected_outcome", S("<assessment of the patient completed>"))>>)

ScenarioFeedback ==
    JObj(<<Pair("correct_actions", JArr(<<S("<initial information gathered>")>>)),
           Pair("suggestions", JArr(<<S("<question the patient more thoroughly>")>>)),
           Pair("protocol_adherence", JNum("85.0"))>>)

\* lines 108-129
DefaultScenario ==
    JObj(<<Pair("current_state", CurrentState(S("<stable>"), DefaultScenarioVitals)),
           Pair("next_steps", ScenarioNextSteps),
           Pair("feedback", ScenarioFeedback)>>)

\* lines 103-131 on the value generate_response returned
SimulateScenario(response) ==
    IF response.t = "obj"
       /\ \/ (ObjHas(response.v, <<"format">>)
              /\ DocEq(ObjGet(response.v, <<"format">>), S("plain_text")))
          \/ ~ObjHas(response.v, <<"current_state">>)
    THEN DefaultScenario
    ELSE response

(***************************************************************************)
(* The replies OllamaService is run on.                                    *)
(***************************************************************************)
BackendScenarioVital ==
    [f \in Range(ScenarioVitalFields) |->
        CASE f = "<pulse>"          -> JNum("130")
          [] f = "<respirations>"   -> JNum("28")
          [] f = "<temperature>"    -> JNum("39.1")
          [] f = "<blood pressure>" -> S("90/60")]

ScenarioVitalSets == {Range(ScenarioVitalFields), {"<pulse>"}, {"<pulse>", "<temperature>"}, {}}

ScenarioDoc(have) ==
    JObj(<<Pair("current_state",
                CurrentState(S("<critical>"), ScenarioVitals(have, BackendScenarioVital))),
           Pair("next_steps", ScenarioNextSteps),
           Pair("feedback", ScenarioFeedback)>>)

OllamaDocs ==
    {ScenarioDoc(have) : have \in ScenarioVitalSets}
    \cup {JObj(ScenarioDoc({"<pulse>"}).v \o <<Pair("format", S("plain_text"))>>),
          JObj(<<Pair("vital_signs", ScenarioVitals({"<pulse>"}, BackendScenarioVital)),
                 Pair("next_steps", ScenarioNextSteps)>>),
          JObj(<<Pair("current_state", S("<stable>"))>>),
          CompleteDoc}

OllamaReplies ==
    {MkReply(d, w, n) : d \in OllamaDocs, w \in Wraps, n \in 0..MaxCut}
    \cup ProseReplies

OllamaBehaviours ==
    {Transport("ReadTimeout"), Status(503), BadBody, NoResponseKey}

NoReply == [full |-> <<>>, wrap |-> "", cut |-> 0, text |-> <<>>]

\* posts counts the requests of line 29
Asked(reply, b) ==
    [stage |-> "asked", reply |-> reply, b |-> b, posts |-> 0,
     response |-> JNull, result |-> JNull, error |-> ""]

InitOllama ==
    /\ \/ \E r \in OllamaReplies : x = Asked(r, Reply200(r.text))
       \/ \E b \in OllamaBehaviours : x = Asked(NoReply, b)
    /\ calls = NoCalls

GenerateStep(st, r) ==
    IF r.ok THEN [st EXCEPT !.stage = "generated", !.posts = @ + 1, !.response = r.val]
    ELSE [st EXCEPT !.stage = "raised", !.posts = @ + 1, !.error = r.error]

\* line 103: response = await self.generate_response(prompt, system); an
\* exception leaves simulate_healthcare_scenario too (lines 132-134)
O_Generate ==
    /\ x.stage = "asked"
    /\ x' = GenerateStep(x, GenerateResponse(x.b))
    /\ UNCHANGED calls

\* lines 105-131
O_Simulate ==
    /\ x.stage = "generated"
    /\ x' = [x EXCEPT !.stage = "simulated", !.result = SimulateScenario(x.response)]
    /\ UNCHANGED calls

NextOllama == O_Generate \/ O_Simulate

SpecOllama == InitOllama /\ [][NextOllama]_vars

(***************************************************************************)
(* C18.  A vital_signs object that arrives with some of its sub-fields is  *)
(* completed field by field: what the backend sent keeps its value, each   *)
(* sub-field it lacks gets its default, and the object is not replaced by  *)
(* the default object.  Lines 498-520 of operations.py do so;              *)
(* simulate_healthcare_scenario returns the object as it came, or replaces *)
(* the whole reply by the default scenario (lines 106-129).                *)
(***************************************************************************)
HasStateVitals(doc) ==
    /\ doc.t = "obj"
    /\ ObjHas(doc.v, <<"current_state">>)
    /\ ObjGet(doc.v, <<"current_state">>).t = "obj"
    /\ ObjHas(ObjGet(doc.v, <<"current_state">>).v, <<"vital_signs">>)
    /\ ObjGet(ObjGet(doc.v, <<"current_state">>).v, <<"vital_signs">>).t = "obj"

StateVitals(doc) == ObjGet(ObjGet(doc.v, <<"current_state">>).v, <<"vital_signs">>)

\* out is sent completed field by field: defaults maps each field of the
\* object to its default
CompletedFrom(sent, out, defaults) ==
    /\ out.t = "obj"
    /\ \A k \in ObjKeys(sent.v) : DocEq(ObjGet(out.v, k), ObjGet(sent.v, k))
    /\ \A f \in DOMAIN defaults :
          /\ ObjHas(out.v, <<f>>)
          /\ ~ObjHas(sent.v, <<f>>) => DocEq(ObjGet(out.v, <<f>>), defaults[f])

C18_NestedCompleted ==
    (x.stage = "simulated" /\ HasStateVitals(x.response))
    => /\ HasStateVitals(x.result)
       /\ CompletedFrom(StateVitals(x.response), StateVitals(x.result),
                        [f \in Range(ScenarioVitalFields) |-> ScenarioVitalDefault(f)])

\* the same property of _query_llm_with_retry, which the code satisfies
\* (specification SpecExtract)
C18_CompletedInQuery ==
    (x.stage = "returned" /\ PyIn("vital_signs", x.parsed) = "yes"
     /\ ObjGet(x.parsed.v, <<"vital_signs">>).t = "obj")
    => CompletedFrom(ObjGet(x.parsed.v, <<"vital_signs">>),
                     ObjGet(Loads(x.ret).val.v, <<"vital_signs">>),
                     [f \in Range(VitalFields) |-> VitalDefault(f)])

(***************************************************************************)
(* C20.  A reply A + J + B, with J a JSON object and A, B texts without    *)
(* braces, is extracted to the document J parses to.  Neither function     *)
(* looks for the first {: both hand the text from its start to json.loads  *)
(* (operations.py lines 445-465, ollama_service.py lines 41-47), so a      *)
(* reply with text before the object is not parsed.                        *)
(***************************************************************************)
IsProseAround(reply) ==
    /\ reply.wrap \in {"prose_before", "prose_after"}
    /\ reply.cut = 0
    /\ Loads(reply.full).ok
    /\ Loads(reply.full).val.t = "obj"

C20_SliceBraces ==
    IsProseAround(x.reply)
    => /\ ~(x.stage = "raised" /\ x.error = "JSONDecodeError")
       /\ x.stage \in {"parsed", "defaulted", "returned"}
          => DocEq(x.parsed, Loads(x.reply.full).val)

\* the same property of OllamaService.generate_response (specification
\* SpecOllama)
C20_SliceBracesOllama ==
    (IsProseAround(x.reply) /\ x.stage \in {"generated", "simulated"})
    => DocEq(x.response, Loads(x.reply.full).val)

(***************************************************************************)
(* The repair of an unparseable text (lines 463-472, 524-527).             *)
(***************************************************************************)
\* the attempt got a document out of the text
C21_Parsed(st) ==
    \/ st.stage \in {"parsed", "defaulted", "returned"}
    \/ st.stage = "raised" /\ st.error = "TypeError"

\* the attempt ended in the parse error
C21_Unparseable(st) == st.stage = "raised" /\ st.error = "JSONDecodeError"

\* the text the first parse is given (lines 445-461)
C21_Completed(r) == CompletePartial(CleanText(r.text))

\* what the second parse decides
C21_Second(st, second) ==
    IF second.ok THEN C21_Parsed(st) /\ DocEq(st.parsed, second.val)
    ELSE C21_Unparseable(st)

\* what the first parse of the text completed decides, deficit being its
\* opening minus its closing braces; st.text is the text parsed last
C21_First(st, completed, first, deficit) ==
    IF first.ok
    THEN /\ st.text = completed
         /\ C21_Parsed(st)
         /\ DocEq(st.parsed, first.val)
    ELSE IF deficit > 0
         THEN /\ st.text = completed \o Repeat(RB, deficit)
              /\ C21_Second(st, Loads(completed \o Repeat(RB, deficit)))
         ELSE /\ st.text = completed
              /\ C21_Unparseable(st)

\* C21: the text of an attempt is parsed at most twice. When the first parse
\* fails and the text has more opening than closing braces, exactly
\* (opening - closing) closing braces are appended and the parse is retried
\* once; with no more opening than closing braces nothing is appended; a text
\* that still does not parse ends the attempt in the parse error.
C21_RepairOnce ==
    (C21_Parsed(x) \/ C21_Unparseable(x))
    => C21_First(x, C21_Completed(x.reply), Loads(C21_Completed(x.reply)),
                 Count(C21_Completed(x.reply), LB) - Count(C21_Completed(x.reply), RB))

\* a text short of two closing braces, parsed at the second parse
C21_Witness ==
    /\ x.stage = "parsed"
    /\ ~Loads(C21_Completed(x.reply)).ok
    /\ x.text = C21_Completed(x.reply) \o <<RB, RB>>

(***************************************************************************)
(* What a successful call tells its caller (lines 474-523, 372-389).       *)
(***************************************************************************)
\* the attempt filled at least one field or vital sign with its default
C22_Degraded(st) == st.missing # <<>> \/ st.missing_vitals # <<>>

\* full is an attempt that returned with nothing defaulted
C22_FullSuccess(full) ==
    full.kind = "return" /\ full.missing = <<>> /\ full.missing_vitals = <<>>

\* C22: the outcome of a successful call tells the caller which fields were
\* defaulted: a call that returned after filling a field with its default is
\* told by its returned value from the call whose backend sent that same
\* value itself and that filled nothing.
C22_DegradedDistinguishable ==
    (x.stage = "returned" /\ C22_Degraded(x))
    => \A full \in {ProcessReply(x.ret)} :
          C22_FullSuccess(full) => full.ret # x.ret

(***************************************************************************)
(* Fenced replies (lines 444-450).                                         *)
(***************************************************************************)
\* a whole JSON object inside code fence markers, the opening one tagged json
\* or not
C23_IsFenced(r) == r.wrap \in {"fence_json", "fence"} /\ r.cut = 0

\* the reply was parsed
C23_Extracted(st) ==
    \/ st.stage \in {"parsed", "defaulted", "returned"}
    \/ st.stage = "raised" /\ st.error # "JSONDecodeError"

\* C23: a reply that wraps a valid JSON object in code fence markers, the
\* opening fence with or without a language tag, with whitespace around, is
\* extracted to the same document as the object alone.
C23_FenceStripped ==
    (C23_IsFenced(x.reply) /\ x.stage \notin {"raw", "cleaned", "completed"})
    => /\ C23_Extracted(x)
       /\ DocEq(x.parsed, Loads(x.reply.full).val)

(***************************************************************************)
(* The sections of a simulated scenario (ollama_service.py, lines 103-131).*)
(***************************************************************************)
C24_Sections == {"current_state", "next_steps", "feedback"}

\* C24: for every reply with a success status the result of
\* simulate_healthcare_scenario has the three sections current_state,
\* next_steps and feedback; a result with current_state but without
\* next_steps or feedback is never returned.
C24_AllSections ==
    x.stage = "simulated"
    => /\ x.result.t = "obj"
       /\ \A k \in C24_Sections : ObjHas(x.result.v, <<k>>)

(***************************************************************************)
(* The checks of simulate_scenario on the value the call returned          *)
(* (lines 372-393).                                                        *)
(***************************************************************************)
\* the text parses and the document has every required field (lines 375-381)
C25_Passes(r) == r.ok /\ \A f \in Required : PyIn(f, r.val) = "yes"

\* C25: whenever _query_llm_with_retry, called with the default max_retries,
\* returns a value to simulate_scenario, the value parses and passes the
\* required-fields check: simulate_scenario raises neither 'Incomplete
\* response structure from LLM' nor its 'Failed to parse LLM response as
\* valid JSON'.
C25_CheckAlwaysPasses ==
    /\ \A c \in DOMAIN calls :
          calls[c].outcome.kind = "returned" => C25_Passes(Loads(calls[c].ret))
    /\ x.stage = "raised"
       => /\ x.message # "Incomplete response structure from LLM"
          /\ ~(x.error = "ValueError"
               /\ x.message = "Failed to parse LLM response as valid JSON")

\* simulate_scenario has checked a value in which three fields were defaulted
C25_Witness ==
    /\ x.stage = "responded"
    /\ calls["call"].outcome.kind = "returned"
    /\ Len(calls["call"].missing) = 3

(***************************************************************************)
(* The health probe of every attempt (lines 401-433).                      *)
(***************************************************************************)
\* the attempts the call has started
C26_Started(call) ==
    IF call.pc = "idle" \/ call.outcome.kind = "returned_none" THEN 0
    ELSE call.attempt + 1

\* the probes the call has issued, in order
C26_Probes(call) == SelectSeq(call.net, LAMBDA op : op.op = "GET")

\* the POST at position j of the requests follows the probe of its attempt,
\* and that probe did not fail
C26_Probed(call, j) ==
    /\ j > 1
    /\ call.net[j - 1] = Get(call.net[j].attempt)
    /\ \A i \in 1..Len(call.log) :
          i = call.net[j].attempt + 1 => call.log[i].b # ProbeFailed

\* C26: a health probe is issued at the start of every attempt, retries
\* included: the POST of attempt k is preceded by a successful probe of
\* attempt k, and the number of probes issued equals the number of attempts
\* started.
C26_ProbeEveryAttempt ==
    \A c \in DOMAIN calls :
        /\ \A j \in 1..Len(calls[c].net) :
              calls[c].net[j].op = "POST" => C26_Probed(calls[c], j)
        /\ C26_Probes(calls[c]) = [i \in 1..C26_Started(calls[c]) |-> Get(i - 1)]

\* a retry that probed again before its POST
C26_Witness ==
    \E c \in DOMAIN calls :
        /\ calls[c].net = <<Get(0), Post(0), Get(1), Post(1)>>
        /\ Len(calls[c].log) = 2

(***************************************************************************)
(* The sleeps of one call (lines 532-549).                                 *)
(***************************************************************************)
RECURSIVE C27_Sum(_)
C27_Sum(s) == IF s = <<>> THEN 0 ELSE Head(s) + C27_Sum(Tail(s))

\* C27: no backoff sleep follows the last permitted attempt: when attempt
\* number max_retries fails the call fails without sleeping, so a call sleeps
\* at most max_retries - 1 times and at most 2^(max_retries - 1) - 1 seconds
\* in total, 3 seconds for the default of 3 attempts.
C27_NoSleepAfterLast ==
    \A c \in DOMAIN calls :
        /\ calls[c].max_retries <= 0 => calls[c].sleeps = <<>>
        /\ calls[c].max_retries >= 1
           => /\ Len(calls[c].sleeps) <= calls[c].max_retries - 1
              /\ C27_Sum(calls[c].sleeps) <= 2 ^ (calls[c].max_retries - 1) - 1
              /\ Len(calls[c].log) = calls[c].max_retries
                 => /\ calls[c].pc = "done"
                    /\ calls[c].log[calls[c].max_retries].delay = 0
        /\ calls[c].max_retries = DefaultMaxRetries => C27_Sum(calls[c].sleeps) <= 3

\* the third of three attempts failed on a retryable error: the call slept
\* 3 seconds before it and is over
C27_Witness ==
    \E c \in DOMAIN calls :
        /\ calls[c].max_retries = DefaultMaxRetries
        /\ Len(calls[c].log) = DefaultMaxRetries
        /\ Retryable(calls[c].log[DefaultMaxRetries].error)
        /\ C27_Sum(calls[c].sleeps) = 3
        /\ calls[c].outcome.kind = "raised"

(***************************************************************************)
(* A call that is allowed no attempt (lines 399-403).                      *)
(***************************************************************************)
\* C28: called with max_retries <= 0 the function sends no probe and no
\* POST, does not sleep, raises no error and returns no value (None): neither
\* a document nor a failure.
C28_NoAttemptNoResult ==
    \A c \in DOMAIN calls :
        (calls[c].max_retries <= 0 /\ calls[c].pc # "idle")
        => /\ calls[c].pc = "done"
           /\ calls[c].outcome = [kind |-> "returned_none", message |-> ""]
           /\ calls[c].net = <<>>
           /\ calls[c].sleeps = <<>>
           /\ calls[c].log = <<>>
           /\ calls[c].ret = NoReturn

\* a call with max_retries = 0 is over
C28_Witness ==
    \E c \in DOMAIN calls :
        /\ calls[c].max_retries = 0
        /\ calls[c].pc = "done"
        /\ calls[c].outcome.kind = "returned_none"

(***************************************************************************)
(* A reply without text (lines 437-440, 545-549).                          *)
(***************************************************************************)
\* a 200 reply whose response text is absent or empty
C29_Empty(b) == b = NoResponseKey \/ b = Reply200(<<>>)

\* what attempt number i, which got such a reply, led to
C29_Handled(call, i) ==
    /\ call.log[i].error = "ValueError"
    /\ i <= call.max_retries
    /\ i < call.max_retries
       => /\ call.log[i].delay = 2 ^ (i - 1)
          /\ Len(call.sleeps) >= i
          /\ call.sleeps[i] = 2 ^ (i - 1)
    /\ i = call.max_retries
       => /\ call.log[i].delay = 0
          /\ call.pc = "done"
          /\ call.outcome = [kind |-> "raised", message |-> "Invalid response structure"]
          /\ call.ret = NoReturn

\* C29: a reply with a success status whose response text is empty or absent
\* is never returned as a result: the attempt counts as failed and is retried
\* after the backoff, against the attempt budget it shares with transport
\* and parse failures; on the last attempt it ends the call in failure.
C29_EmptyRetried ==
    \A c \in DOMAIN calls :
        \A i \in 1..Len(calls[c].log) :
            C29_Empty(calls[c].log[i].b) => C29_Handled(calls[c], i)

\* a timeout, a reply that does not parse and a reply without text used up
\* the three attempts
C29_Witness ==
    \E c \in DOMAIN calls :
        /\ Len(calls[c].log) = 3
        /\ calls[c].log[1].error = "ReadTimeout"
        /\ calls[c].log[2].error = "JSONDecodeError"
        /\ C29_Empty(calls[c].log[3].b)
        /\ calls[c].outcome.kind = "raised"

(***************************************************************************)
(* One call of generate_response (ollama_service.py, lines 15-60).         *)
(***************************************************************************)
\* response is what some prefix of the stripped text parses to
C30_ParsedFrom(text, response) ==
    \E n \in 1..Len(text) :
        /\ Loads(SubSeq(text, 1, n)).ok
        /\ Loads(SubSeq(text, 1, n)).val.t = "obj"
        /\ DocEq(response, Loads(SubSeq(text, 1, n)).val)

\* the call returned the parsed JSON object or the plain_text structure
C30_ParsedOrPlain(st) ==
    /\ st.stage \in {"generated", "simulated"}
    /\ st.response.t = "obj"
    /\ \/ DocEq(st.response, PlainText(st.b.text))
       \/ C30_ParsedFrom(Strip(st.b.text), st.response)

\* one POST and no more, whatever its answer
C30_OnePost(st) ==
    /\ st.posts <= 1
    /\ st.stage # "asked" => st.posts = 1

\* a failure of the transport or of the status is raised again
C30_Reraised(st) ==
    (st.stage # "asked" /\ ~(st.b.code >= 200 /\ st.b.code < 300))
    => /\ st.stage = "raised"
       /\ st.error = (IF st.b.kind = "status" THEN "HTTPStatusError" ELSE st.b.kind)

\* C30 as claimed: generate_response issues exactly one POST and never
\* retries; for every reply with a success status it returns the parsed JSON
\* object or the fallback {text, format: plain_text} and never raises; a
\* transport or status failure is raised again.
C30_SuccessNeverRaises ==
    /\ C30_OnePost(x)
    /\ C30_Reraised(x)
    /\ (x.stage # "asked" /\ x.b.code >= 200 /\ x.b.code < 300)
       => C30_ParsedOrPlain(x)

\* C30 amended: the same for the replies with a success status whose body is
\* JSON; a success reply whose body is no JSON makes response.json() raise,
\* and the error is raised again like a transport failure.
C30_OnePostParsedOrPlain ==
    /\ C30_OnePost(x)
    /\ C30_Reraised(x)
    /\ (x.stage # "asked" /\ x.b.kind \in {"reply", "no_response"})
       => C30_ParsedOrPlain(x)
    /\ (x.stage # "asked" /\ x.b = BadBody)
       => x.stage = "raised" /\ x.error = "JSONDecodeError"

\* a reply cut before its end came back as plain text after one POST
C30_Witness ==
    /\ x.stage = "generated"
    /\ x.posts = 1
    /\ x.reply.cut > 0
    /\ x.reply.wrap = "plain"
    /\ DocEq(x.response, PlainText(x.b.text))

=============================================================================
